---- MODULE Spec2Model ----
(***************************************************************************)
(* Loan approval application: the decision engine (decision_engine.py) and *)
(* the submission ledger with its request handlers (app.py).               *)
(*                                                                         *)
(* Amounts (loan_amount, annual_income, maximum_loan_amount) are integers  *)
(* in one common unit.  A loan-to-income ratio is kept exact, as a record  *)
(* [inf, num, den] (num / den, or +infinity), and compared by cross        *)
(* multiplication.  Time is counted in ticks, TicksPerDay ticks to a day,  *)
(* so that timedelta.days (whole days, truncated) is a real truncation.    *)
(***************************************************************************)
EXTENDS Integers, Sequences, FiniteSets, TLC

VARIABLES
    rules,        \* DecisionEngine.rules, loaded once from rules.json
    application,  \* the application handed to evaluate_application
    outcome,      \* what evaluate_application returned (or that it raised)
    fileExists,   \* whether submissions.json exists
    ledger,       \* the list stored in submissions.json
    clock,        \* datetime.now(), in ticks
    response,     \* the last response of a non-interleaved request
    served,       \* how many requests have been handled
    pc,           \* interleaved requests: each worker's position
    req           \* interleaved requests: each worker's local variables

vars == <<rules, application, outcome, fileExists, ledger, clock, response, served, pc, req>>

(***************************************************************************)
(* Bounds of the model.                                                    *)
(***************************************************************************)
MaxAmount == 5       \* amounts range over -1 .. MaxAmount
TicksPerDay == 2     \* resolution of the clock
MaxClock == 15       \* the clock stops advancing here
MaxRequests == 2     \* requests handled one at a time in one run
MaxInterleaved == 3  \* interleaved requests handled in one run
MaxOverlap == 1      \* interleaved requests: they overlap up to this instant

(***************************************************************************)
(* Program constants.                                                      *)
(***************************************************************************)
RESUBMISSION_DAYS == 7

AllFields == {"name", "email", "loan_amount", "credit_score", "annual_income", "has_bankruptcy"}

(***************************************************************************)
(* rules.json and messages.json are not part of the sources; their shape   *)
(* is the one the engine reads and the documentation lists.                *)
(***************************************************************************)
RuleSets ==
    [ required_fields      : {AllFields},
      minimum_credit_score : {300},
      maximum_loan_amount  : {1, 4},
      pre_approved_min     : {720},
      conditional_min      : {620, 650},
      max_ratio            : {[num |-> 2, den |-> 5], [num |-> 1, den |-> 3]} ]

DefaultRules ==
    [ required_fields      |-> AllFields,
      minimum_credit_score |-> 300,
      maximum_loan_amount  |-> 4,
      pre_approved_min     |-> 720,
      conditional_min      |-> 620,
      max_ratio            |-> [num |-> 2, den |-> 5] ]

DecisionKeys == {"pre_approved", "conditional", "denied", "denied_compliance"}

(***************************************************************************)
(* Ratios.                                                                 *)
(***************************************************************************)
Infinity == [inf |-> TRUE, num |-> 1, den |-> 1]

\* the ratio with its operands exchanged
IncomeToLoan(loan_amount, annual_income) ==
    IF loan_amount > 0
    THEN [inf |-> FALSE, num |-> annual_income, den |-> loan_amount]
    ELSE Infinity

\* loan_amount / annual_income if annual_income > 0 else float('inf')
LoanToIncome(loan_amount, annual_income) ==
    IF annual_income > 0
    THEN [inf |-> FALSE, num |-> loan_amount, den |-> annual_income]
    ELSE Infinity

\* r <= num/den, for r a ratio with a positive denominator
RatioLE(r, num, den) == (~ r.inf) /\ r.num * den <= num * r.den

RatioGT(r, num, den) == r.inf \/ r.num * den > num * r.den

(***************************************************************************)
(* An application as the engine sees it: a dict whose keys may be absent   *)
(* (absent) or hold None (null).                                           *)
(***************************************************************************)
Has(app, f) == f \notin app.absent
IsNone(app, f) == Has(app, f) /\ f \in app.null

\* _check_compliance without the check of the maximum loan amount
CheckComplianceNoMaximum(app, r) ==
    IF \E f \in r.required_fields : ~ Has(app, f) \/ IsNone(app, f)
    THEN [raised |-> FALSE, valid |-> FALSE]
    ELSE IF IsNone(app, "credit_score") THEN [raised |-> TRUE, valid |-> FALSE]
    ELSE IF (IF Has(app, "credit_score") THEN app.credit_score ELSE 0) < r.minimum_credit_score
    THEN [raised |-> FALSE, valid |-> FALSE]
    ELSE [raised |-> FALSE, valid |-> TRUE]

\* DecisionEngine._check_compliance: TRUE/FALSE for 'valid', or that it raised
CheckCompliance(app, r) ==
    IF \E f \in r.required_fields : ~ Has(app, f) \/ IsNone(app, f)
    THEN [raised |-> FALSE, valid |-> FALSE]
    ELSE IF IsNone(app, "credit_score") THEN [raised |-> TRUE, valid |-> FALSE]
    ELSE IF (IF Has(app, "credit_score") THEN app.credit_score ELSE 0) < r.minimum_credit_score
    THEN [raised |-> FALSE, valid |-> FALSE]
    ELSE IF IsNone(app, "loan_amount") THEN [raised |-> TRUE, valid |-> FALSE]
    ELSE IF (IF Has(app, "loan_amount") THEN app.loan_amount ELSE 0) > r.maximum_loan_amount
    THEN [raised |-> FALSE, valid |-> FALSE]
    ELSE [raised |-> FALSE, valid |-> TRUE]

\* _make_decision with a strict comparison in the pre-approval rule
MakeDecisionStrict(credit_score, loan_to_income, has_bankruptcy, r) ==
    IF /\ credit_score >= r.pre_approved_min
       /\ ~ has_bankruptcy
       /\ (~ loan_to_income.inf)
       /\ loan_to_income.num * r.max_ratio.den < r.max_ratio.num * loan_to_income.den
    THEN "pre_approved"
    ELSE IF credit_score >= r.pre_approved_min /\ has_bankruptcy
    THEN "conditional"
    ELSE IF credit_score >= r.pre_approved_min
            /\ RatioGT(loan_to_income, r.max_ratio.num, r.max_ratio.den)
    THEN "conditional"
    ELSE IF /\ r.conditional_min <= credit_score
            /\ credit_score < r.pre_approved_min
            /\ RatioLE(loan_to_income, 1, 2)
    THEN "conditional"
    ELSE "denied"

\* DecisionEngine._make_decision
MakeDecision(credit_score, loan_to_income, has_bankruptcy, r) ==
    IF /\ credit_score >= r.pre_approved_min
       /\ ~ has_bankruptcy
       /\ RatioLE(loan_to_income, r.max_ratio.num, r.max_ratio.den)
    THEN "pre_approved"
    ELSE IF credit_score >= r.pre_approved_min /\ has_bankruptcy
    THEN "conditional"
    ELSE IF credit_score >= r.pre_approved_min
            /\ RatioGT(loan_to_income, r.max_ratio.num, r.max_ratio.den)
    THEN "conditional"
    ELSE IF /\ r.conditional_min <= credit_score
            /\ credit_score < r.pre_approved_min
            /\ RatioLE(loan_to_income, 1, 2)
    THEN "conditional"
    ELSE "denied"

NoMessage == [decision |-> "", template |-> "", amount |-> 0]

Raised == [raised |-> TRUE, decision |-> "", message |-> NoMessage, ratio |-> Infinity]

\* DecisionEngine._format_message: the template looked up (falling back to
\* 'denied') and the amount substituted for ${loan_amount}; formatting
\* None with ',.2f' raises TypeError
FormatMessage(decision, app) ==
    IF IsNone(app, "loan_amount")
    THEN [raised |-> TRUE, message |-> NoMessage]
    ELSE [raised |-> FALSE,
          message |-> [decision |-> decision,
                       template |-> IF decision \in DecisionKeys THEN decision ELSE "denied",
                       amount   |-> IF Has(app, "loan_amount") THEN app.loan_amount ELSE 0]]

\* DecisionEngine.evaluate_application
EvaluateApplication(app, r) ==
    LET compliance_check == CheckCompliance(app, r) IN
    IF compliance_check.raised THEN Raised
    ELSE IF ~ compliance_check.valid
    THEN LET m == FormatMessage("denied_compliance", app) IN
         IF m.raised THEN Raised
         ELSE [raised |-> FALSE, decision |-> "denied_compliance",
               message |-> m.message, ratio |-> Infinity]
    ELSE IF \E f \in {"credit_score", "loan_amount", "annual_income", "has_bankruptcy"} :
                ~ Has(app, f)
    THEN Raised   \* KeyError
    ELSE IF IsNone(app, "annual_income")
    THEN Raised   \* None > 0
    ELSE LET loan_to_income == LoanToIncome(app.loan_amount, app.annual_income)
             has_bankruptcy == (~ IsNone(app, "has_bankruptcy")) /\ app.has_bankruptcy
             decision == MakeDecision(app.credit_score, loan_to_income, has_bankruptcy, r)
             m == FormatMessage(decision, app)
         IN  [raised |-> FALSE, decision |-> decision,
              message |-> m.message, ratio |-> loan_to_income]

(***************************************************************************)
(* The engine alone: any rules of RuleSets, any application of             *)
(* Applications, evaluated once.                                           *)
(***************************************************************************)
Amounts == (-1) .. MaxAmount

\* credit scores at and around every threshold of the rules
Scores == {250, 299, 300, 619, 620, 650, 719, 720}

\* which keys are absent and which hold None
FieldStates ==
    {[absent |-> {}, null |-> {}]}
    \cup {[absent |-> {f}, null |-> {}] : f \in AllFields \ {"email"}}
    \cup {[absent |-> {}, null |-> {f}] : f \in AllFields \ {"email"}}
    \cup {[absent |-> {"annual_income"}, null |-> {"loan_amount"}],
          [absent |-> {}, null |-> {"name", "loan_amount"}]}

Applications ==
    { [absent |-> fs.absent, null |-> fs.null, credit_score |-> cs,
       loan_amount |-> la, annual_income |-> ai, has_bankruptcy |-> hb] :
        fs \in FieldStates, cs \in Scores, la \in Amounts, ai \in Amounts,
        hb \in BOOLEAN }

NoApplication ==
    [absent |-> AllFields, null |-> {}, credit_score |-> 0, loan_amount |-> 0,
     annual_income |-> 0, has_bankruptcy |-> FALSE]

NotEvaluated == [raised |-> FALSE, decision |-> "none", message |-> NoMessage, ratio |-> Infinity]

(***************************************************************************)
(* Text.  A string is a sequence of one-character strings.                 *)
(***************************************************************************)
Letters == {"a", "b", "n", "x", "i", "o", "A", "B"}
LocalChars == Letters \cup {".", "_", "%", "+", "-"}
DomainChars == Letters \cup {".", "-"}

\* str.lower, character by character
LowerChar(c) == IF c = "A" THEN "a" ELSE IF c = "B" THEN "b" ELSE c

Lower(s) == [i \in DOMAIN s |-> LowerChar(s[i])]

\* str.strip
RECURSIVE Strip(_)
Strip(s) ==
    IF s = <<>> THEN s
    ELSE IF Head(s) = " " THEN Strip(Tail(s))
    ELSE IF s[Len(s)] = " " THEN Strip(SubSeq(s, 1, Len(s) - 1))
    ELSE s

\* bleach.clean on text without tags: markup characters are escaped
RECURSIVE Clean(_)
Clean(s) ==
    IF s = <<>> THEN s
    ELSE (IF Head(s) = "<" THEN <<"&", "l", "t", ";">> ELSE <<Head(s)>>) \o Clean(Tail(s))

\* sanitize_input
SanitizeInput(text) == Clean(Strip(text))

\* validate_email: ^[a-zA-Z0-9._%+-]+@[a-zA-Z0-9.-]+\.[a-zA-Z]{2,}$
ValidateEmail(email) ==
    \E i, j \in 1 .. Len(email) :
        /\ 1 < i /\ i + 1 < j /\ j + 2 <= Len(email)
        /\ email[i] = "@" /\ email[j] = "."
        /\ \A k \in 1 .. (i - 1) : email[k] \in LocalChars
        /\ \A k \in (i + 1) .. (j - 1) : email[k] \in DomainChars
        /\ \A k \in (j + 1) .. Len(email) : email[k] \in Letters

(***************************************************************************)
(* The ledger: submissions.json, a list of submission records.             *)
(***************************************************************************)
\* (datetime.now() - submission_date).days
DaysSince(now, timestamp) == (now - timestamp) \div TicksPerDay

\* the comparison without lower()
SameEmailExact(sub, email) == sub.email = email

\* sub.get('email', '').lower() == email.lower()
SameEmail(sub, email) == Lower(sub.email) = Lower(email)

\* the loop of check_existing_submission with a window one day short
RECURSIVE ScanReversedShort(_, _, _, _)
ScanReversedShort(submissions, i, email, now) ==
    IF i = 0 THEN [exists |-> FALSE, days_remaining |-> 0, old_sub |-> <<>>]
    ELSE IF SameEmail(submissions[i], email)
    THEN LET days_since == DaysSince(now, submissions[i].timestamp) IN
         IF days_since < RESUBMISSION_DAYS - 1
         THEN [exists |-> TRUE, days_remaining |-> RESUBMISSION_DAYS - days_since,
               old_sub |-> <<submissions[i]>>]
         ELSE [exists |-> FALSE, days_remaining |-> 0, old_sub |-> <<submissions[i]>>]
    ELSE ScanReversedShort(submissions, i - 1, email, now)

\* the loop of check_existing_submission, from position i down to 1
RECURSIVE ScanReversed(_, _, _, _)
ScanReversed(submissions, i, email, now) ==
    IF i = 0 THEN [exists |-> FALSE, days_remaining |-> 0, old_sub |-> <<>>]
    ELSE IF SameEmail(submissions[i], email)
    THEN LET days_since == DaysSince(now, submissions[i].timestamp) IN
         IF days_since < RESUBMISSION_DAYS
         THEN [exists |-> TRUE, days_remaining |-> RESUBMISSION_DAYS - days_since,
               old_sub |-> <<submissions[i]>>]
         ELSE [exists |-> FALSE, days_remaining |-> 0, old_sub |-> <<submissions[i]>>]
    ELSE ScanReversed(submissions, i - 1, email, now)

\* the loop of check_existing_submission, run forward (a wrong scan order)
RECURSIVE ScanForward(_, _, _, _)
ScanForward(submissions, i, email, now) ==
    IF i > Len(submissions) THEN [exists |-> FALSE, days_remaining |-> 0, old_sub |-> <<>>]
    ELSE IF SameEmail(submissions[i], email)
    THEN LET days_since == DaysSince(now, submissions[i].timestamp) IN
         IF days_since < RESUBMISSION_DAYS
         THEN [exists |-> TRUE, days_remaining |-> RESUBMISSION_DAYS - days_since,
               old_sub |-> <<submissions[i]>>]
         ELSE [exists |-> FALSE, days_remaining |-> 0, old_sub |-> <<submissions[i]>>]
    ELSE ScanForward(submissions, i + 1, email, now)

\* check_existing_submission deciding on the first record of the email
CheckExistingSubmissionFirst(exists, submissions, email, now) ==
    IF ~ exists THEN [exists |-> FALSE, days_remaining |-> 0, old_sub |-> <<>>]
    ELSE ScanForward(submissions, 1, email, now)

\* check_existing_submission; exists: whether the file is there
CheckExistingSubmission(exists, submissions, email, now) ==
    IF ~ exists THEN [exists |-> FALSE, days_remaining |-> 0, old_sub |-> <<>>]
    ELSE ScanReversed(submissions, Len(submissions), email, now)

\* the loop of save_submission: the first position from i on that holds the
\* email and is RESUBMISSION_DAYS old, or 0
RECURSIVE FirstExpired(_, _, _, _)
FirstExpired(submissions, i, email, now) ==
    IF i > Len(submissions) THEN 0
    ELSE IF SameEmail(submissions[i], email)
            /\ DaysSince(now, submissions[i].timestamp) >= RESUBMISSION_DAYS
    THEN i
    ELSE FirstExpired(submissions, i + 1, email, now)

\* save_submission without the break: every old record of the email replaced
SaveSubmissionAll(exists, submissions, data, now) ==
    LET read == IF exists THEN submissions ELSE <<>>
        old == {i \in 1 .. Len(read) :
                   SameEmail(read[i], data.email)
                   /\ DaysSince(now, read[i].timestamp) >= RESUBMISSION_DAYS}
    IN  IF old # {} THEN [i \in 1 .. Len(read) |-> IF i \in old THEN data ELSE read[i]]
        ELSE Append(read, data)

\* save_submission: the list written back
SaveSubmission(exists, submissions, data, now) ==
    LET read == IF exists THEN submissions ELSE <<>>
        i == FirstExpired(read, 1, data.email, now)
    IN  IF i # 0 THEN [read EXCEPT ![i] = data] ELSE Append(read, data)

\* the loop of contact_preference, from position i down to 1
RECURSIVE ContactScan(_, _, _, _, _)
ContactScan(submissions, i, email, preference, now) ==
    IF i = 0 THEN submissions
    ELSE IF SameEmail(submissions[i], email)
    THEN [submissions EXCEPT ![i] =
             [@ EXCEPT !.contact_requested = IF preference = "yes" THEN "True" ELSE "False",
                       !.contact_timestamp = now]]
    ELSE ContactScan(submissions, i - 1, email, preference, now)

\* the loop of contact_preference, run forward (a wrong scan order)
RECURSIVE ContactScanForward(_, _, _, _, _)
ContactScanForward(submissions, i, email, preference, now) ==
    IF i > Len(submissions) THEN submissions
    ELSE IF SameEmail(submissions[i], email)
    THEN [submissions EXCEPT ![i] =
             [@ EXCEPT !.contact_requested = IF preference = "yes" THEN "True" ELSE "False",
                       !.contact_timestamp = now]]
    ELSE ContactScanForward(submissions, i + 1, email, preference, now)

\* contact_preference updating the first record of the email
ContactUpdateFirst(submissions, email, preference, now) ==
    ContactScanForward(submissions, 1, email, preference, now)

\* contact_preference on the list it read
ContactUpdate(submissions, email, preference, now) ==
    ContactScan(submissions, Len(submissions), email, preference, now)

(***************************************************************************)
(* Requests.                                                               *)
(***************************************************************************)
EmailLower == <<"a", "@", "x", ".", "i", "o">>
EmailUpper == <<"A", "@", "x", ".", "i", "o">>
EmailOther == <<"b", "@", "x", ".", "i", "o">>
EmailNoTld == <<"a", "@", "x">>

\* a form field holding a number: float() and int() raise ValueError on other text
Num(n) == [numeric |-> TRUE, v |-> n]
NotANumber == [numeric |-> FALSE, v |-> 0]

GoodForm ==
    [name |-> <<"n">>, email |-> EmailLower, loan_amount |-> Num(2),
     credit_score |-> Num(780), annual_income |-> Num(5), has_bankruptcy |-> "no"]

FormInputs ==
    {GoodForm,
     [GoodForm EXCEPT !.email = <<" ">> \o EmailUpper, !.has_bankruptcy = "yes"],
     [GoodForm EXCEPT !.name = <<" ">>],
     [GoodForm EXCEPT !.email = <<>>],
     [GoodForm EXCEPT !.email = EmailNoTld],
     [GoodForm EXCEPT !.email = <<"<">> \o EmailLower],
     [GoodForm EXCEPT !.credit_score = NotANumber],
     [GoodForm EXCEPT !.credit_score = Num(299)],
     [GoodForm EXCEPT !.credit_score = Num(851)],
     [GoodForm EXCEPT !.loan_amount = Num(0)],
     [GoodForm EXCEPT !.annual_income = Num(0)]}

GoodJson ==
    [absent |-> {}, null |-> {}, name |-> <<"n">>, email |-> EmailUpper,
     loan_amount |-> 2, credit_score |-> 250, annual_income |-> 5,
     has_bankruptcy |-> FALSE]

ApiInputs ==
    {GoodJson,
     [GoodJson EXCEPT !.email = EmailOther, !.credit_score = 700],
     [GoodJson EXCEPT !.absent = {"annual_income"}],
     [GoodJson EXCEPT !.null = {"loan_amount"}],
     [GoodJson EXCEPT !.null = {"email"}]}

ContactInputs ==
    {[email |-> <<" ">> \o EmailUpper, preference |-> "yes"],
     [email |-> EmailNoTld, preference |-> "no"]}

\* the submission record of a form request (app.py, submission_record)
FormRecord(name, email, loan_amount, credit_score, annual_income, has_bankruptcy, timestamp, decision) ==
    [name |-> name, email |-> email, loan_amount |-> loan_amount,
     credit_score |-> credit_score, annual_income |-> annual_income,
     has_bankruptcy |-> has_bankruptcy, null |-> {}, timestamp |-> timestamp,
     decision |-> decision, contact_requested |-> "None", contact_timestamp |-> -1,
     source |-> "form"]

\* the submission record of an API request
ApiRecord(json, timestamp, decision) ==
    [name |-> json.name, email |-> json.email, loan_amount |-> json.loan_amount,
     credit_score |-> json.credit_score, annual_income |-> json.annual_income,
     has_bankruptcy |-> json.has_bankruptcy, null |-> json.null, timestamp |-> timestamp,
     decision |-> decision, contact_requested |-> "unset", contact_timestamp |-> -1,
     source |-> "api"]

\* the application dict evaluate_application gets
EngineApplication(absent, null, loan_amount, credit_score, annual_income, has_bankruptcy) ==
    [absent |-> absent, null |-> null, credit_score |-> credit_score,
     loan_amount |-> loan_amount, annual_income |-> annual_income,
     has_bankruptcy |-> has_bankruptcy]

\* submit_application up to the eligibility check: the error, or "ok"
FormValidate(name, email) ==
    IF name = <<>> \/ email = <<>> THEN "missing_fields"
    ELSE IF ~ ValidateEmail(email) THEN "invalid_email"
    ELSE "ok"

\* submit_application, the conversions and the range checks: the error, or "ok"
FormParse(form) ==
    IF ~ (form.loan_amount.numeric /\ form.credit_score.numeric /\ form.annual_income.numeric)
    THEN "system_error"
    ELSE IF ~ (300 <= form.credit_score.v /\ form.credit_score.v <= 850)
    THEN "invalid_credit_score"
    ELSE IF form.loan_amount.v <= 0 THEN "invalid_loan_amount"
    ELSE IF form.annual_income.v <= 0 THEN "invalid_income"
    ELSE "ok"

\* what a request leaves behind: its response, the file, and the last clock read
Done(kind, exists, submissions, now) ==
    [kind |-> kind, exists |-> exists, submissions |-> submissions, now |-> now]

\* submit_application with the range checks after the save
SubmitApplicationLate(form, exists, submissions, now1, now2, now3, r) ==
    LET name == SanitizeInput(form.name)
        email == SanitizeInput(form.email)
        valid == FormValidate(name, email)
        check == CheckExistingSubmission(exists, submissions, email, now1)
        parsed == FormParse(form)
        has_bankruptcy == (form.has_bankruptcy = "yes")
        result == EvaluateApplication(
                      EngineApplication({}, {}, form.loan_amount.v, form.credit_score.v,
                                        form.annual_income.v, has_bankruptcy), r)
        record == FormRecord(name, email, form.loan_amount.v, form.credit_score.v,
                             form.annual_income.v, has_bankruptcy, now2, result.decision)
    IN  IF valid # "ok" THEN Done(valid, exists, submissions, now1)
        ELSE IF check.exists THEN Done("blocked", exists, submissions, now1)
        ELSE IF parsed = "system_error" THEN Done(parsed, exists, submissions, now1)
        ELSE Done(IF parsed = "ok" THEN "result" ELSE parsed,
                  TRUE, SaveSubmission(exists, submissions, record, now3), now3)

\* submit_application: now1, now2, now3 are the clock as check_existing_submission,
\* the timestamp and save_submission read it
SubmitApplication(form, exists, submissions, now1, now2, now3, r) ==
    LET name == SanitizeInput(form.name)
        email == SanitizeInput(form.email)
        valid == FormValidate(name, email)
        check == CheckExistingSubmission(exists, submissions, email, now1)
        parsed == FormParse(form)
        has_bankruptcy == (form.has_bankruptcy = "yes")
        result == EvaluateApplication(
                      EngineApplication({}, {}, form.loan_amount.v, form.credit_score.v,
                                        form.annual_income.v, has_bankruptcy), r)
        record == FormRecord(name, email, form.loan_amount.v, form.credit_score.v,
                             form.annual_income.v, has_bankruptcy, now2, result.decision)
    IN  IF valid # "ok" THEN Done(valid, exists, submissions, now1)
        ELSE IF check.exists THEN Done("blocked", exists, submissions, now1)
        ELSE IF parsed # "ok" THEN Done(parsed, exists, submissions, now1)
        ELSE Done("result", TRUE, SaveSubmission(exists, submissions, record, now3), now3)

\* api_evaluate
ApiEvaluate(json, exists, submissions, now1, now2, now3, r) ==
    LET check == CheckExistingSubmission(exists, submissions, json.email, now1)
        result == EvaluateApplication(
                      EngineApplication(json.absent, json.null, json.loan_amount,
                                        json.credit_score, json.annual_income,
                                        json.has_bankruptcy), r)
        record == ApiRecord(json, now2, result.decision)
    IN  IF \E f \in AllFields : f \in json.absent
        THEN Done("api_missing_field", exists, submissions, now1)
        ELSE IF "email" \in json.null        \* None has no lower()
        THEN Done("api_error", exists, submissions, now1)
        ELSE IF check.exists THEN Done("api_blocked", exists, submissions, now1)
        ELSE IF result.raised THEN Done("api_error", exists, submissions, now2)
        ELSE Done("api_success", TRUE, SaveSubmission(exists, submissions, record, now3), now3)

\* contact_preference: a missing file raises, and the exception is dropped
ContactPreference(input, exists, submissions, now) ==
    IF ~ exists THEN Done("contact", exists, submissions, now)
    ELSE Done("contact", TRUE,
              ContactUpdate(submissions, SanitizeInput(input.email), input.preference, now),
              now)

RejectKinds ==
    {"missing_fields", "invalid_email", "blocked", "system_error", "invalid_credit_score",
     "invalid_loan_amount", "invalid_income", "api_missing_field", "api_blocked", "api_error"}

(***************************************************************************)
(* Requests handled one at a time.                                         *)
(***************************************************************************)
Idle == [p \in {1, 2} |-> "idle"]
NoReq == [p \in {1, 2} |-> <<>>]

Finish(done) ==
    /\ served' = served + 1
    /\ response' = done.kind
    /\ fileExists' = done.exists
    /\ ledger' = done.submissions
    /\ clock' = done.now
    /\ UNCHANGED <<rules, application, outcome, pc, req>>

SubmitForm ==
    /\ served < MaxRequests
    /\ \E form \in FormInputs :
         \E done \in {SubmitApplication(form, fileExists, ledger, clock, clock, clock, rules)} :
             Finish(done)

ApiRequest ==
    /\ served < MaxRequests
    /\ \E json \in ApiInputs :
         \E done \in {ApiEvaluate(json, fileExists, ledger, clock, clock, clock, rules)} :
             Finish(done)

ContactRequest ==
    /\ served < MaxRequests
    /\ \E input \in ContactInputs :
         \E done \in {ContactPreference(input, fileExists, ledger, clock)} :
             Finish(done)

\* time passes between two requests; the response sent is then in the past
Tick ==
    /\ clock < MaxClock
    /\ clock' = clock + 1
    /\ response' = "none"
    /\ UNCHANGED <<rules, application, outcome, fileExists, ledger, served, pc, req>>

Init ==
    /\ rules = DefaultRules
    /\ application = NoApplication
    /\ outcome = NotEvaluated
    /\ fileExists \in BOOLEAN
    /\ ledger = <<>>
    /\ clock = 0
    /\ response = "none"
    /\ served = 0
    /\ pc = Idle
    /\ req = NoReq

Next == SubmitForm \/ ApiRequest \/ ContactRequest \/ Tick

Spec == Init /\ [][Next]_vars

(***************************************************************************)
(* The engine alone.                                                       *)
(***************************************************************************)
InitEngine ==
    /\ rules \in RuleSets
    /\ application \in Applications
    /\ outcome = NotEvaluated
    /\ fileExists = FALSE
    /\ ledger = <<>>
    /\ clock = 0
    /\ response = "none"
    /\ served = 0
    /\ pc = Idle
    /\ req = NoReq

EngineEvaluate ==
    /\ outcome = NotEvaluated
    /\ outcome' = EvaluateApplication(application, rules)
    /\ UNCHANGED <<rules, application, fileExists, ledger, clock, response, served, pc, req>>

NextEngine == EngineEvaluate

SpecEngine == InitEngine /\ [][NextEngine]_vars

Evaluated == outcome # NotEvaluated

\* every key is there and none holds None
WellFormed(app) == app.absent = {} /\ app.null = {}

\* the compliance gate, as documented
PassesCompliance(app, r) ==
    /\ \A f \in r.required_fields : f \notin app.absent /\ f \notin app.null
    /\ app.credit_score >= r.minimum_credit_score
    /\ app.loan_amount <= r.maximum_loan_amount

\* loan_amount / annual_income <= num / den, the ratio being +infinity when
\* annual_income <= 0
RatioAtMost(app, num, den) ==
    app.annual_income > 0 /\ app.loan_amount * den <= num * app.annual_income

\* the decision matrix, first match first
Matrix(app, r) ==
    CASE app.credit_score >= r.pre_approved_min /\ ~ app.has_bankruptcy
           /\ RatioAtMost(app, r.max_ratio.num, r.max_ratio.den) -> "pre_approved"
      [] app.credit_score >= r.pre_approved_min /\ app.has_bankruptcy -> "conditional"
      [] app.credit_score >= r.pre_approved_min /\ ~ app.has_bankruptcy
           /\ ~ RatioAtMost(app, r.max_ratio.num, r.max_ratio.den) -> "conditional"
      [] app.credit_score < r.pre_approved_min /\ app.credit_score >= r.conditional_min
           /\ RatioAtMost(app, 1, 2) -> "conditional"
      [] OTHER -> "denied"

\* C3: an application that passes the compliance gate gets exactly the decision
\* of the first matching rule of the matrix, one of pre_approved, conditional,
\* denied; and whatever evaluate_application returns is one of the four
\* decisions.
C3_DecisionMatrix ==
    Evaluated =>
        /\ PassesCompliance(application, rules) =>
               /\ ~ outcome.raised
               /\ outcome.decision = Matrix(application, rules)
               /\ outcome.decision \in {"pre_approved", "conditional", "denied"}
        /\ ~ outcome.raised => outcome.decision \in DecisionKeys

\* an excellent score with a ratio above max_ratio went through the gate
C3_Witness ==
    /\ Evaluated /\ PassesCompliance(application, rules)
    /\ application.credit_score >= rules.pre_approved_min
    /\ ~ application.has_bankruptcy
    /\ application.annual_income > 0
    /\ ~ RatioAtMost(application, rules.max_ratio.num, rules.max_ratio.den)
    /\ outcome.decision = "conditional"

CreditBelowMinimum(app, r) ==
    /\ "credit_score" \notin app.absent \cup app.null
    /\ app.credit_score < r.minimum_credit_score

LoanAboveMaximum(app, r) ==
    /\ "loan_amount" \notin app.absent \cup app.null
    /\ app.loan_amount > r.maximum_loan_amount

\* C4: a credit score below minimum_credit_score, or a loan amount above
\* maximum_loan_amount, gives denied_compliance whatever the other fields hold
\* (a loan_amount of None is the case of C6).
C4_ComplianceDenial ==
    (/\ Evaluated
     /\ "loan_amount" \notin application.null
     /\ CreditBelowMinimum(application, rules) \/ LoanAboveMaximum(application, rules))
        => ~ outcome.raised /\ outcome.decision = "denied_compliance"

\* a loan above the maximum, with a score that would have been pre-approved
C4_Witness ==
    /\ Evaluated /\ WellFormed(application)
    /\ LoanAboveMaximum(application, rules)
    /\ application.credit_score >= rules.pre_approved_min
    /\ RatioAtMost(application, rules.max_ratio.num, rules.max_ratio.den)
    /\ outcome.decision = "denied_compliance"

PreApprovedCase(app, r) ==
    /\ WellFormed(app)
    /\ app.credit_score >= r.pre_approved_min
    /\ ~ app.has_bankruptcy
    /\ RatioAtMost(app, r.max_ratio.num, r.max_ratio.den)

\* C5 as stated: an excellent score, no bankruptcy and a ratio within max_ratio
\* give pre_approved, with no condition on loan_amount.
C5_Original ==
    (Evaluated /\ PreApprovedCase(application, rules))
        => outcome.decision = "pre_approved"

\* C5, amended: an excellent score, no bankruptcy and a ratio within max_ratio
\* give pre_approved when the application passes the compliance gate, that is
\* when moreover loan_amount <= maximum_loan_amount and credit_score >=
\* minimum_credit_score.
C5_PreApproved ==
    (Evaluated /\ PreApprovedCase(application, rules)
        /\ PassesCompliance(application, rules))
        => ~ outcome.raised /\ outcome.decision = "pre_approved"

\* the ratio exactly at max_ratio
C5_Witness ==
    /\ Evaluated /\ PreApprovedCase(application, rules)
    /\ PassesCompliance(application, rules)
    /\ application.loan_amount * rules.max_ratio.den
           = rules.max_ratio.num * application.annual_income
    /\ outcome.decision = "pre_approved"

\* C6: an application with a required field absent or None is answered, without
\* an exception, by denied_compliance and its formatted message.
C6_MissingFieldDenied ==
    (Evaluated /\ \E f \in rules.required_fields :
                      f \in application.absent \cup application.null)
        => /\ ~ outcome.raised
           /\ outcome.decision = "denied_compliance"
           /\ outcome.message.template = "denied_compliance"

(***************************************************************************)
(* Requests whose steps interleave: two workers, each handling one request *)
(* at a time; every read of the file, write of the file and read of the    *)
(* clock is a step of its own.  Requests overlap during the first          *)
(* MaxOverlap ticks; later ones arrive one after the other.                *)
(***************************************************************************)
Workers == {1, 2}

AllIdle == \A q \in Workers : pc[q] = "idle"

MayStart(p) ==
    /\ pc[p] = "idle"
    /\ \A q \in Workers : q < p => pc[q] # "idle"
    /\ served < MaxInterleaved
    /\ AllIdle \/ clock <= MaxOverlap

InterleavedForms ==
    {GoodForm,
     [GoodForm EXCEPT !.email = <<" ">> \o EmailUpper, !.has_bankruptcy = "yes"],
     [GoodForm EXCEPT !.email = EmailOther]}

Forget(p) ==
    /\ pc' = [pc EXCEPT ![p] = "idle"]
    /\ req' = [req EXCEPT ![p] = <<>>]

\* submit_application, up to and with check_existing_submission
ReqCheck(p) ==
    /\ MayStart(p)
    /\ served' = served + 1
    /\ \E form \in InterleavedForms :
         LET name == SanitizeInput(form.name)
             email == SanitizeInput(form.email)
         IN  \E check \in {CheckExistingSubmission(fileExists, ledger, email, clock)} :
                 IF FormValidate(name, email) # "ok" \/ check.exists
                 THEN Forget(p)
                 ELSE /\ pc' = [pc EXCEPT ![p] = "build"]
                      /\ req' = [req EXCEPT ![p] =
                                    [form |-> form, name |-> name, email |-> email,
                                     old_sub |-> check.old_sub]]
    /\ UNCHANGED <<rules, application, outcome, fileExists, ledger, clock, response>>

\* submit_application from the conversions to the submission record
ReqBuild(p) ==
    /\ pc[p] = "build"
    /\ LET form == req[p].form
           has_bankruptcy == (form.has_bankruptcy = "yes")
           result == EvaluateApplication(
                         EngineApplication({}, {}, form.loan_amount.v, form.credit_score.v,
                                           form.annual_income.v, has_bankruptcy), rules)
       IN  IF FormParse(form) # "ok"
           THEN Forget(p)
           ELSE /\ pc' = [pc EXCEPT ![p] = "save_read"]
                /\ req' = [req EXCEPT ![p] =
                              [email |-> req[p].email, old_sub |-> req[p].old_sub,
                               record |-> FormRecord(req[p].name, req[p].email,
                                              form.loan_amount.v, form.credit_score.v,
                                              form.annual_income.v, has_bankruptcy,
                                              clock, result.decision)]]
    /\ UNCHANGED <<rules, application, outcome, fileExists, ledger, clock, response, served>>

\* save_submission: the file is read
ReqSaveRead(p) ==
    /\ pc[p] = "save_read"
    /\ pc' = [pc EXCEPT ![p] = "save_write"]
    /\ req' = [req EXCEPT ![p] =
                  [email |-> req[p].email, old_sub |-> req[p].old_sub,
                   record |-> req[p].record,
                   submissions |-> IF fileExists THEN ledger ELSE <<>>]]
    /\ UNCHANGED <<rules, application, outcome, fileExists, ledger, clock, response, served>>

\* save_submission: the list is updated and written
ReqSaveWrite(p) ==
    /\ pc[p] = "save_write"
    /\ ledger' = SaveSubmission(TRUE, req[p].submissions, req[p].record, clock)
    /\ fileExists' = TRUE
    /\ Forget(p)
    /\ UNCHANGED <<rules, application, outcome, clock, response, served>>

\* contact_preference: the file is read; a missing file ends the request
ReqContactRead(p) ==
    /\ MayStart(p)
    /\ served' = served + 1
    /\ \E input \in ContactInputs :
         IF ~ fileExists
         THEN Forget(p)
         ELSE /\ pc' = [pc EXCEPT ![p] = "contact_write"]
              /\ req' = [req EXCEPT ![p] =
                            [email |-> SanitizeInput(input.email),
                             preference |-> input.preference,
                             submissions |-> ledger]]
    /\ UNCHANGED <<rules, application, outcome, fileExists, ledger, clock, response>>

\* contact_preference: the list is updated and written
ReqContactWrite(p) ==
    /\ pc[p] = "contact_write"
    /\ ledger' = ContactUpdate(req[p].submissions, req[p].email, req[p].preference, clock)
    /\ Forget(p)
    /\ UNCHANGED <<rules, application, outcome, fileExists, clock, response, served>>

\* time passes
TickInterleaved ==
    /\ clock < MaxClock
    /\ AllIdle \/ clock < MaxOverlap
    /\ clock' = clock + 1
    /\ UNCHANGED <<rules, application, outcome, fileExists, ledger, response, served, pc, req>>

NextInterleaved ==
    \/ \E p \in Workers :
          \/ ReqCheck(p)
          \/ ReqBuild(p)
          \/ ReqSaveRead(p)
          \/ ReqSaveWrite(p)
          \/ ReqContactRead(p)
          \/ ReqContactWrite(p)
    \/ TickInterleaved

SpecInterleaved == Init /\ [][NextInterleaved]_vars

(***************************************************************************)
(* Properties of the ledger.                                               *)
(***************************************************************************)
Active(sub) == DaysSince(clock, sub.timestamp) < RESUBMISSION_DAYS

Positions(submissions, email) ==
    {i \in 1 .. Len(submissions) : Lower(submissions[i].email) = Lower(email)}

Last(S) == CHOOSE i \in S : \A j \in S : j <= i

EmailProbes == {EmailLower, EmailUpper, EmailOther, EmailNoTld}

\* C1: requests handled one at a time never leave two records of one email
\* (compared without case) that are both less than RESUBMISSION_DAYS whole
\* days old.
C1_OneActivePerEmail ==
    \A i, j \in 1 .. Len(ledger) :
        (i < j /\ Lower(ledger[i].email) = Lower(ledger[j].email))
            => ~ (Active(ledger[i]) /\ Active(ledger[j]))

\* the API refused, inside the window, an email the form had saved in another case
C1_Witness ==
    /\ response = "api_blocked"
    /\ Len(ledger) = 1
    /\ ledger[1].source = "form"
    /\ ledger[1].email = EmailLower
    /\ Active(ledger[1])

\* what check_existing_submission is to return for an email
ExpectedCheck(email) ==
    LET M == Positions(ledger, email)
        d == DaysSince(clock, ledger[Last(M)].timestamp)
    IN  IF ~ fileExists \/ M = {}
        THEN [exists |-> FALSE, days_remaining |-> 0, old_sub |-> <<>>]
        ELSE IF d < RESUBMISSION_DAYS
        THEN [exists |-> TRUE, days_remaining |-> RESUBMISSION_DAYS - d,
              old_sub |-> <<ledger[Last(M)]>>]
        ELSE [exists |-> FALSE, days_remaining |-> 0, old_sub |-> <<ledger[Last(M)]>>]

\* C2: check_existing_submission decides on the last record of the email alone:
\* blocked with 7 - d days remaining while d, its age in whole days, is below 7
\* (so between 1 and 7 days remain), not blocked from d = 7 on, and not blocked
\* without a record or without a file.
C2_CheckExisting ==
    \A email \in EmailProbes :
        LET check == CheckExistingSubmission(fileExists, ledger, email, clock) IN
        /\ check = ExpectedCheck(email)
        /\ check.exists => check.days_remaining \in 1 .. RESUBMISSION_DAYS

\* a request got through the check on the strength of the last of two records
\* of its email, seven days old
C2_Witness ==
    \E p \in Workers :
        /\ pc[p] = "build"
        /\ req[p].old_sub # <<>>
        /\ Cardinality(Positions(ledger, req[p].email)) = 2
        /\ req[p].old_sub[1] = ledger[Last(Positions(ledger, req[p].email))]
        /\ DaysSince(clock, req[p].old_sub[1].timestamp) = RESUBMISSION_DAYS

\* old records of the email in the list save_submission read
Expired(submissions, email, now) ==
    {i \in Positions(submissions, email) :
        DaysSince(now, submissions[i].timestamp) >= RESUBMISSION_DAYS}

SaveFrame(old, record, now, new) ==
    IF Expired(old, record.email, now) # {}
    THEN /\ Len(new) = Len(old)
         /\ \E i \in Expired(old, record.email, now) :
                /\ new[i] = record
                /\ \A j \in 1 .. Len(old) : j # i => new[j] = old[j]
    ELSE /\ Len(new) = Len(old) + 1
         /\ new[Len(new)] = record
         /\ \A j \in 1 .. Len(old) : new[j] = old[j]

\* C7: save_submission either replaces, in place, exactly one record of the
\* email that is RESUBMISSION_DAYS old, or, there being none, appends the new
\* record; every other position of the list it read is written back unchanged.
C7_SaveFrame ==
    [][\A p \in Workers :
           (pc[p] = "save_write" /\ pc'[p] = "idle")
               => SaveFrame(req[p].submissions, req[p].record, clock, ledger')]_vars

\* a save is about to replace the first of two old records of its email
C7_Witness ==
    \E p \in Workers :
        /\ pc[p] = "save_write"
        /\ Cardinality(Expired(req[p].submissions, req[p].record.email, clock)) = 2
        /\ req[p].submissions = ledger

ContactFrame(old, email, preference, now, new) ==
    LET M == Positions(old, email) IN
    /\ Len(new) = Len(old)
    /\ \A j \in 1 .. Len(old) :
           IF M # {} /\ j = Last(M)
           THEN new[j] = [old[j] EXCEPT
                             !.contact_requested =
                                 IF preference = "yes" THEN "True" ELSE "False",
                             !.contact_timestamp = now]
           ELSE new[j] = old[j]
    /\ \A e \in EmailProbes :
           LET before == CheckExistingSubmission(TRUE, old, e, now)
               after == CheckExistingSubmission(TRUE, new, e, now)
           IN  /\ after.exists = before.exists
               /\ after.days_remaining = before.days_remaining

\* C8: contact_preference sets contact_requested and contact_timestamp on the
\* last record of the email and changes nothing else: not the length, the
\* order, another record, or what an eligibility check answers; without a
\* matching record, or without a file, the content stays as it is.
C8_ContactFrame ==
    [][\A p \in Workers :
           /\ (pc[p] = "contact_write" /\ pc'[p] = "idle")
                  => ContactFrame(req[p].submissions, req[p].email, req[p].preference,
                                  clock, ledger')
           /\ (pc[p] = "idle" /\ pc'[p] = "idle" /\ served' # served)
                  => ledger' = ledger /\ fileExists' = fileExists]_vars

\* of two records of one email the last has the preference, the first has not
C8_Witness ==
    /\ Len(ledger) = 2
    /\ Lower(ledger[1].email) = Lower(ledger[2].email)
    /\ ledger[1].contact_requested = "None"
    /\ ledger[2].contact_requested = "True"
    /\ ledger[2].contact_timestamp = clock

PastCheck == {"build", "save_read", "save_write"}

\* C9: with interleaved requests a record is saved next to an active record of
\* its email only by a request whose own eligibility check had passed (the
\* record it saw, if any, is RESUBMISSION_DAYS old), and one email never has
\* more active records than there are workers.
C9_RaceOnly ==
    /\ \A p \in Workers :
           (pc[p] \in PastCheck /\ req[p].old_sub # <<>>)
               => DaysSince(clock, req[p].old_sub[1].timestamp) >= RESUBMISSION_DAYS
    /\ \A email \in EmailProbes :
           Cardinality({i \in Positions(ledger, email) : Active(ledger[i])})
               <= Cardinality(Workers)

\* both requests passed the check, both were saved: two active records of one email
C9_Witness ==
    /\ AllIdle
    /\ served = 2
    /\ Len(ledger) = 2
    /\ Lower(ledger[1].email) = Lower(ledger[2].email)
    /\ Active(ledger[1]) /\ Active(ledger[2])

\* C10: a rejected request leaves the file as it was, so that the email's
\* eligibility depends only on the age of its last saved record.
C10_RejectedUnchanged ==
    [][(served' # served /\ response' \in RejectKinds)
           => /\ ledger' = ledger /\ fileExists' = fileExists
              /\ \A i \in 1 .. Len(ledger) :
                     (i = Last(Positions(ledger, ledger[i].email)))
                         => (CheckExistingSubmission(fileExists', ledger', ledger[i].email,
                                                     clock').exists
                                <=> DaysSince(clock', ledger[i].timestamp)
                                        < RESUBMISSION_DAYS)]_vars

\* a refusal on the last day of the window
C10_Witness ==
    /\ response = "blocked"
    /\ Len(ledger) = 1
    /\ DaysSince(clock, ledger[1].timestamp) = RESUBMISSION_DAYS - 1

====
